---- MODULE Spec2Model ----
(***************************************************************************)
(* NeoPixel lighting controller (src/NeoPixels/NeoPixels.ino).             *)
(*                                                                         *)
(* An eight-stop rotary switch is read on an analog pin and quantised to a *)
(* lighting mode by mode_switch::read_mode; loop() dispatches on the mode  *)
(* to one of five animation routines, each of which renders frames and     *)
(* polls the switch until the reading differs from current_mode.           *)
(*                                                                         *)
(* The sketch runs on a single thread: the model has one program counter   *)
(* pc, and one action per step of loop() and of the routines.              *)
(***************************************************************************)
EXTENDS Integers, Sequences, FiniteSets

\* ------------------------------------------------------------------------
\* Fixed-width arithmetic

UINT16_MAX == 65535
UINT8_MAX == 255

\* The value of x as a uint16_t, and as a uint8_t
u16(x) == x % (UINT16_MAX + 1)
u8(x) == x % (UINT8_MAX + 1)

\* ------------------------------------------------------------------------
\* Config

n_rings == 5
n_leds_per_ring == 12
n_leds == u8(n_leds_per_ring * n_rings)
n_stops == 8

LEDs == 0..(n_leds - 1)

\* enum class modes: uint8_t
BRIGHT_WHITE == 0
DIM_WHITE == 1
PASTEL_RAINBOW == 2
ROLLING_RAINBOW == 3
ROLLING_RAINBOW_RING == 4
CHASING_DOTS == 5
PULSING_COLOURS == 6
RANDOM == 7
ERROR == 8

OrdinaryModes == 0..(n_stops - 1)
Modes == OrdinaryModes \cup {ERROR}

\* 10-bit ADC: the valid readings of analogRead
ADC_MAX == 1023
ValidSamples == 0..ADC_MAX

\* ------------------------------------------------------------------------
\* Bounds of the model

\* How far outside [0, ADC_MAX] the raw samples given to read_mode reach.
RawMargin == 8

\* How many polls that find the switch where it was the model follows within
\* one call of a routine.
MaxPolls == 240

\* The same for the model of rainbow on its own: past one whole cycle of the
\* slowest hue wheel.
MaxFrames == 16390

RawSamples == (0 - RawMargin)..(ADC_MAX + RawMargin)
ExtendedValues == 0..UINT16_MAX

\* ------------------------------------------------------------------------
\* mode_switch::read_mode

\* A mutant of extend: one bit too many is shifted in, and the value wraps.
extend_7(voltage) == u16(u16(voltage) * 128)

\* const uint16_t value = (static_cast<uint16_t>(voltage) << 6);
extend(voltage) == u16(u16(voltage) * 64)

\* A mutant of delta: the whole distance between stops, not half of it.
delta_full == u16(UINT16_MAX \div (n_stops - 1))

\* const uint16_t delta = UINT16_MAX / (2 * (n_stops - 1));
delta == u16(UINT16_MAX \div (2 * (n_stops - 1)))

\* A mutant of threshold: the voltage of the stop itself, not the voltage
\* halfway to the next.
threshold_at_stop(n) == u16((2 * n) * delta)

\* A mutant of threshold: delta is taken as the whole distance between stops,
\* and the upper thresholds wrap.
threshold_doubled(n) == u16((2 * n + 1) * (2 * delta))

\* A mutant of threshold: the split is at the next stop, a whole step up.
threshold_next(n) == u16((2 * n + 2) * delta)

\* const uint16_t threshold = (2 * n + 1) * delta;
threshold(n) == u16((2 * n + 1) * delta)

\* A mutant of below_threshold: the band test with <= in place of <.
below_threshold_le(value, n) == value <= threshold(n)

\* if (value < threshold)
below_threshold(value, n) == value < threshold(n)

\* for (uint8_t n = 0; n < (n_stops - 1); ++n) { ... } return n_stops - 1;
RECURSIVE find_stop(_, _)
find_stop(value, n) ==
    IF n < (n_stops - 1)
    THEN IF below_threshold(value, n)
         THEN n
         ELSE find_stop(value, n + 1)
    ELSE n_stops - 1

\* A mutant of read_mode: the range check is missing.
read_mode_unchecked(voltage) == find_stop(extend(voltage), 0)

\* modes mode_switch::read_mode(), as a function of what analogRead returned
read_mode(voltage) ==
    IF (voltage < 0) \/ (voltage > 1023)
    THEN ERROR
    ELSE find_stop(extend(voltage), 0)

\* ------------------------------------------------------------------------
\* The resistive ladder: a 1k resistor between each adjacent pair of the
\* n_stops terminals and the supply across the full set puts stop k at
\* k / (n_stops - 1) of full scale, read as round(k * ADC_MAX / (n_stops - 1)).
nominal(k) == (2 * k * ADC_MAX + (n_stops - 1)) \div (2 * (n_stops - 1))

\* What the pin is sampled at in the model of the whole sketch: each stop's
\* nominal reading, and one reading on either side of the valid range.
Voltages == {nominal(k) : k \in 0..(n_stops - 1)} \cup {0 - 1, ADC_MAX + 1}

\* ------------------------------------------------------------------------
\* Colours. Adafruit_NeoPixel's packing, HSV conversion and gamma table are
\* library code: they are kept as uninterpreted terms over their arguments.

\* strip.Color(r, g, b, w)
Color(r, g, b, w) == <<"Color", r, g, b, w>>

\* strip.ColorHSV(hue, saturation, value) | (static_cast<uint32_t>(white) << 24)
ColorHSVW(hue, saturation, value, white) ==
    <<"ColorHSV", hue, saturation, value, white>>

\* The same with value = max(strip.sine8(x), floor): the sine table is the
\* library's, and the value is kept as a term over the table's index x.
ColorHSVW_sine8(hue, saturation, x, floor, white) ==
    <<"ColorHSV_max_sine8", hue, saturation, x, floor, white>>

\* strip.Color of four draws of ::random(UINT8_MAX + 1), squared and scaled:
\* the model does not tell the draws apart.
ColorRandom == <<"Color_random">>

\* strip.gamma32(colour)
gamma32(colour) == <<"gamma32", colour>>

\* A pixel that is off (strip.clear(), and the buffer after strip.begin()).
Off == Color(0, 0, 0, 0)

\* strip.fill(colour)
fill(colour) == [n \in LEDs |-> colour]

\* ------------------------------------------------------------------------
\* State

VARIABLES
    pc,             \* where the sketch is
    current_mode,   \* modes current_mode
    voltage,        \* what the latest analogRead(mode_switch::pin) returned
    routine,        \* the neopixels:: routine loop() is inside, or "none"
    args,           \* the arguments that routine was called with
    base_hue,       \* rainbow: uint16_t base_hue
    hue_index,      \* pulsing_colours: uint8_t hue_index
    phase,          \* pulsing_colours: uint8_t phase
    t,              \* chasing_dots: uint16_t t
    pixels,         \* the strip's pixel buffer
    shown,          \* what the LEDs display: the buffer at the latest show()
    set_indices,    \* the indices given to setPixelColor for the current frame
    polls,          \* the polls of this call that found the mode unchanged
    frames,         \* the calls of show() since the latest call of read_mode
    flushed,        \* whether show() has been called since setup()
    q_voltage,      \* read_mode on its own: the raw sample
    q_value,        \* read_mode on its own: the extended value
    q_mode,         \* read_mode on its own: the mode returned
    q_done,         \* read_mode on its own: whether it has been applied
    p_sine,         \* pulsing_colours' value on its own: what sine8 returned,
                    \* -1 before any call
    p_value,        \* pulsing_colours' value on its own: the value used
    r_first,        \* random's channels on their own: a draw, -1 before any
    r_second,       \* random's channels on their own: the draw after it
    r_colour,       \* random's channels on their own: a red/green/blue value
    r_white         \* random's channels on their own: the white value

vars == <<pc, current_mode, voltage, routine, args, base_hue, hue_index,
          phase, t, pixels, shown, set_indices, polls, frames,
          flushed,
          q_voltage, q_value, q_mode, q_done,
          p_sine, p_value, r_first, r_second, r_colour, r_white>>

sketch_vars == <<pc, current_mode, voltage, routine, args, base_hue,
                 hue_index, phase, t, pixels, shown, set_indices, polls,
                 frames, flushed>>

p_vars == <<p_sine, p_value>>

r_vars == <<r_first, r_second, r_colour, r_white>>

q_vars == <<q_voltage, q_value, q_mode, q_done, p_vars, r_vars>>

NoArgs == [routine |-> "none"]

\* A mutant of Init: the first iteration of loop() starts at its switch, on
\* current_mode as declared.
Init_dispatching ==
    /\ pc = "switch"
    /\ current_mode = ERROR
    /\ voltage = 0
    /\ routine = "none"
    /\ args = NoArgs
    /\ base_hue = 0
    /\ hue_index = 0
    /\ phase = 0
    /\ t = 0
    /\ pixels = fill(Off)
    /\ shown = fill(Off)
    /\ set_indices = {}
    /\ polls = 0
    /\ frames = 0
    /\ flushed = FALSE
    /\ q_voltage = 0
    /\ q_value = 0
    /\ q_mode = ERROR
    /\ q_done = FALSE
    /\ p_sine = 0 - 1
    /\ p_value = 0
    /\ r_first = 0 - 1
    /\ r_second = 0 - 1
    /\ r_colour = 0
    /\ r_white = 0

\* The state after setup(): current_mode as initialised at its declaration,
\* the strip cleared and shown, loop() about to run.
Init ==
    /\ pc = "loop"
    /\ current_mode = ERROR
    /\ voltage = 0
    /\ routine = "none"
    /\ args = NoArgs
    /\ base_hue = 0
    /\ hue_index = 0
    /\ phase = 0
    /\ t = 0
    /\ pixels = fill(Off)
    /\ shown = fill(Off)
    /\ set_indices = {}
    /\ polls = 0
    /\ frames = 0
    /\ flushed = FALSE
    /\ q_voltage = 0
    /\ q_value = 0
    /\ q_mode = ERROR
    /\ q_done = FALSE
    /\ p_sine = 0 - 1
    /\ p_value = 0
    /\ r_first = 0 - 1
    /\ r_second = 0 - 1
    /\ r_colour = 0
    /\ r_white = 0

\* ------------------------------------------------------------------------
\* The sketch: loop() and the neopixels:: routines

\* What loop() passes to each routine, with the defaults of the declarations.
constant_colour_args(colour) ==
    [routine |-> "constant_colour", colour |-> colour]

rainbow_args(hue_step_size, phase_offset, white) ==
    [routine |-> "rainbow", hue_step_size |-> hue_step_size,
     phase_offset |-> phase_offset, white |-> white,
     saturation |-> UINT8_MAX, value |-> UINT8_MAX]

random_args(delay_ms) ==
    [routine |-> "random", delay_ms |-> delay_ms]

pulsing_colours_args(n_colours, delay_ms) ==
    [routine |-> "pulsing_colours", n_colours |-> n_colours,
     delay_ms |-> delay_ms, white |-> 0, hue_offset |-> 0]

chasing_dots_args(n_dots, n_fade, separation, delay_ms) ==
    [routine |-> "chasing_dots", n_dots |-> n_dots, n_fade |-> n_fade,
     separation |-> separation, delay_ms |-> delay_ms]

\* A call of a routine from loop(): its locals take their initial values.
call(a, entry) ==
    /\ routine' = a.routine
    /\ args' = a
    /\ pc' = entry
    /\ base_hue' = 0
    /\ hue_index' = 0
    /\ phase' = 25
    /\ t' = 0
    /\ polls' = 0
    /\ UNCHANGED <<current_mode, voltage, pixels, shown, set_indices,
                   frames, flushed>>

\* A routine's return, and the break that leaves the switch.
return ==
    /\ routine' = "none"
    /\ args' = NoArgs
    /\ pc' = "settle"
    /\ base_hue' = 0
    /\ hue_index' = 0
    /\ phase' = 0
    /\ t' = 0
    /\ set_indices' = {}
    /\ polls' = 0

\* A mutant of poll: the reading is compared with itself, and no routine
\* ever returns.
poll_ignored(next) ==
    /\ polls < MaxPolls
    /\ \E v \in Voltages :
        /\ voltage' = v
        /\ IF read_mode(v) # read_mode(v)
           THEN return
           ELSE /\ polls' = polls + 1
                /\ pc' = next
                /\ UNCHANGED <<routine, args, base_hue, hue_index, phase, t,
                               set_indices>>
        /\ frames' = 0
        /\ UNCHANGED <<current_mode, pixels, shown, flushed>>

\* A mutant of poll: the mode that was read is stored in current_mode before
\* the routine returns.
poll_storing(next) ==
    /\ polls < MaxPolls
    /\ \E v \in Voltages :
        /\ voltage' = v
        /\ current_mode' = read_mode(v)
        /\ IF read_mode(v) # current_mode
           THEN return
           ELSE /\ polls' = polls + 1
                /\ pc' = next
                /\ UNCHANGED <<routine, args, base_hue, hue_index, phase, t,
                               set_indices>>
        /\ frames' = 0
        /\ UNCHANGED <<pixels, shown, flushed>>

\* The check every routine makes after a frame:
\*     const modes mode = mode_switch::read_mode();
\*     if (mode != current_mode) { return; }
\* and otherwise it goes on at `next`; followed for `cap` checks of one call.
poll_within(next, cap) ==
    /\ polls < cap
    /\ \E v \in Voltages :
        /\ voltage' = v
        /\ IF read_mode(v) # current_mode
           THEN return
           ELSE /\ polls' = polls + 1
                /\ pc' = next
                /\ UNCHANGED <<routine, args, base_hue, hue_index, phase, t,
                               set_indices>>
        /\ frames' = 0
        /\ UNCHANGED <<current_mode, pixels, shown, flushed>>

poll(next) == poll_within(next, MaxPolls)

\* strip.show()
show(next) ==
    /\ shown' = pixels
    /\ frames' = frames + 1
    /\ flushed' = TRUE
    /\ pc' = next
    /\ UNCHANGED <<current_mode, voltage, routine, args, hue_index, phase, t,
                   pixels, set_indices, polls>>

\* delay(ms)
delay(next) ==
    /\ pc' = next
    /\ UNCHANGED <<current_mode, voltage, routine, args, base_hue, hue_index,
                   phase, t, pixels, shown, set_indices, polls, frames, flushed>>

\* ---- loop()

\* A mutant of loop_read: the first iteration keeps current_mode as declared.
loop_read_late ==
    /\ pc = "loop"
    /\ \E v \in Voltages :
        /\ voltage' = v
        /\ current_mode' = IF flushed THEN read_mode(v) ELSE current_mode
    /\ frames' = 0
    /\ pc' = "switch"
    /\ UNCHANGED <<routine, args, base_hue, hue_index, phase, t, pixels,
                   shown, set_indices, polls, flushed>>
    /\ UNCHANGED q_vars

\* A mutant of loop_read: a reading out of range is passed over, and the mode
\* stays what it was.
loop_read_guarded ==
    /\ pc = "loop"
    /\ \E v \in Voltages :
        /\ voltage' = v
        /\ current_mode' = IF read_mode(v) = ERROR
                           THEN current_mode
                           ELSE read_mode(v)
    /\ frames' = 0
    /\ pc' = "switch"
    /\ UNCHANGED <<routine, args, base_hue, hue_index, phase, t, pixels,
                   shown, set_indices, polls, flushed>>
    /\ UNCHANGED q_vars

\* current_mode = mode_switch::read_mode();
loop_read ==
    /\ pc = "loop"
    /\ \E v \in Voltages :
        /\ voltage' = v
        /\ current_mode' = read_mode(v)
    /\ frames' = 0
    /\ pc' = "switch"
    /\ UNCHANGED <<routine, args, base_hue, hue_index, phase, t, pixels,
                   shown, set_indices, polls, flushed>>
    /\ UNCHANGED q_vars

case_BRIGHT_WHITE ==
    /\ pc = "switch"
    /\ current_mode = BRIGHT_WHITE
    /\ call(constant_colour_args(gamma32(Color(0, 0, 0, UINT8_MAX))),
            "cc_fill")
    /\ UNCHANGED q_vars

case_DIM_WHITE ==
    /\ pc = "switch"
    /\ current_mode = DIM_WHITE
    /\ call(constant_colour_args(gamma32(Color(0, 0, 0, UINT8_MAX \div 2))),
            "cc_fill")
    /\ UNCHANGED q_vars

case_PASTEL_RAINBOW ==
    /\ pc = "switch"
    /\ current_mode = PASTEL_RAINBOW
    /\ call(rainbow_args(4, 0, u8(2 * (UINT8_MAX \div 3))), "rb_fill")
    /\ UNCHANGED q_vars

case_ROLLING_RAINBOW ==
    /\ pc = "switch"
    /\ current_mode = ROLLING_RAINBOW
    /\ call(rainbow_args(64, u16(UINT16_MAX \div n_leds), UINT8_MAX \div 4),
            "rb_fill")
    /\ UNCHANGED q_vars

\* A mutant of case_ROLLING_RAINBOW_RING: the wheel is spread over the whole
\* strip, as in ROLLING_RAINBOW.
case_ROLLING_RAINBOW_RING_strip ==
    /\ pc = "switch"
    /\ current_mode = ROLLING_RAINBOW_RING
    /\ call(rainbow_args(256, u16(UINT16_MAX \div n_leds), 0), "rb_fill")
    /\ UNCHANGED q_vars

case_ROLLING_RAINBOW_RING ==
    /\ pc = "switch"
    /\ current_mode = ROLLING_RAINBOW_RING
    /\ call(rainbow_args(256, u16(UINT16_MAX \div n_leds_per_ring), 0),
            "rb_fill")
    /\ UNCHANGED q_vars

\* A mutant of case_PULSING_COLOURS: the arm calls chasing_dots, the routine
\* of the enumerator before it.
case_PULSING_COLOURS_swapped ==
    /\ pc = "switch"
    /\ current_mode = PULSING_COLOURS
    /\ call(chasing_dots_args(5, 8, 40, 50), "cd_fill")
    /\ UNCHANGED q_vars

case_PULSING_COLOURS ==
    /\ pc = "switch"
    /\ current_mode = PULSING_COLOURS
    /\ call(pulsing_colours_args(6, 10), "pl_fill")
    /\ UNCHANGED q_vars

case_CHASING_DOTS ==
    /\ pc = "switch"
    /\ current_mode = CHASING_DOTS
    /\ call(chasing_dots_args(5, 8, 40, 50), "cd_fill")
    /\ UNCHANGED q_vars

case_RANDOM ==
    /\ pc = "switch"
    /\ current_mode = RANDOM
    /\ call(random_args(25), "rnd_fill")
    /\ UNCHANGED q_vars

\* A mutant of case_ERROR: the switch has no case for CHASING_DOTS, which
\* falls to the default.
case_ERROR_folding ==
    /\ pc = "switch"
    /\ current_mode \notin (OrdinaryModes \ {CHASING_DOTS})
    /\ pixels' = fill(gamma32(Color(UINT8_MAX, 0, 0, 0)))
    /\ pc' = "er_show"
    /\ UNCHANGED <<current_mode, voltage, routine, args, base_hue, hue_index,
                   phase, t, shown, set_indices, polls, frames, flushed>>
    /\ UNCHANGED q_vars

\* case modes::ERROR : default : strip.fill(colour);
case_ERROR ==
    /\ pc = "switch"
    /\ current_mode \notin OrdinaryModes
    /\ pixels' = fill(gamma32(Color(UINT8_MAX, 0, 0, 0)))
    /\ pc' = "er_show"
    /\ UNCHANGED <<current_mode, voltage, routine, args, base_hue, hue_index,
                   phase, t, shown, set_indices, polls, frames, flushed>>
    /\ UNCHANGED q_vars

er_show ==
    /\ pc = "er_show"
    /\ show("er_delay")
    /\ UNCHANGED base_hue
    /\ UNCHANGED q_vars

\* A mutant of er_delay: the default arm waits, as the routines do, until the
\* switch reads as another mode.
er_delay_waiting ==
    /\ pc = "er_delay"
    /\ \E v \in Voltages :
        /\ voltage' = v
        /\ pc' = IF read_mode(v) # current_mode THEN "settle" ELSE "er_delay"
    /\ UNCHANGED <<current_mode, routine, args, base_hue, hue_index, phase, t,
                   pixels, shown, set_indices, polls, frames, flushed>>
    /\ UNCHANGED q_vars

\* delay(250); break;
er_delay ==
    /\ pc = "er_delay"
    /\ delay("settle")
    /\ UNCHANGED q_vars

\* delay(50); and loop() is run again
loop_delay ==
    /\ pc = "settle"
    /\ delay("loop")
    /\ UNCHANGED q_vars

\* ---- neopixels::constant_colour

cc_fill ==
    /\ pc = "cc_fill"
    /\ pixels' = fill(args.colour)
    /\ pc' = "cc_show"
    /\ UNCHANGED <<current_mode, voltage, routine, args, base_hue, hue_index,
                   phase, t, shown, set_indices, polls, frames, flushed>>
    /\ UNCHANGED q_vars

cc_show ==
    /\ pc = "cc_show"
    /\ show("cc_poll")
    /\ UNCHANGED base_hue
    /\ UNCHANGED q_vars

cc_poll ==
    /\ pc = "cc_poll"
    /\ poll("cc_delay")
    /\ UNCHANGED q_vars

\* A mutant of cc_delay: the colour is filled and flushed again before every
\* check.
cc_delay_refill ==
    /\ pc = "cc_delay"
    /\ delay("cc_fill")
    /\ UNCHANGED q_vars

\* delay(100);
cc_delay ==
    /\ pc = "cc_delay"
    /\ delay("cc_poll")
    /\ UNCHANGED q_vars

\* ---- neopixels::rainbow

\* A mutant of rainbow_hue: the offsets are added, as in the earlier sketch.
rainbow_hue_plus(n) == u16(base_hue + u16(n * args.phase_offset))

\* const uint16_t hue = base_hue - n * phase_offset;
rainbow_hue(n) == u16(base_hue - u16(n * args.phase_offset))

\* A mutant of rb_fill: the switch is checked before the frame is flushed.
rb_fill_unflushed ==
    /\ pc = "rb_fill"
    /\ pixels' = [n \in LEDs |->
                    gamma32(ColorHSVW(rainbow_hue(n), args.saturation,
                                      args.value, args.white))]
    /\ set_indices' = LEDs
    /\ pc' = "rb_poll"
    /\ UNCHANGED <<current_mode, voltage, routine, args, base_hue, hue_index,
                   phase, t, shown, polls, frames, flushed>>
    /\ UNCHANGED q_vars

\* for (uint8_t n = 0; n < n_leds; ++n) { ... strip.setPixelColor(n, colour); }
rb_fill ==
    /\ pc = "rb_fill"
    /\ pixels' = [n \in LEDs |->
                    gamma32(ColorHSVW(rainbow_hue(n), args.saturation,
                                      args.value, args.white))]
    /\ set_indices' = LEDs
    /\ pc' = "rb_show"
    /\ UNCHANGED <<current_mode, voltage, routine, args, base_hue, hue_index,
                   phase, t, shown, polls, frames, flushed>>
    /\ UNCHANGED q_vars

\* A mutant of rb_show: base_hue stops at the top of its range.
rb_show_saturating ==
    /\ pc = "rb_show"
    /\ show("rb_poll")
    /\ base_hue' = IF base_hue + args.hue_step_size > UINT16_MAX
                   THEN UINT16_MAX
                   ELSE base_hue + args.hue_step_size
    /\ UNCHANGED q_vars

\* strip.show(); base_hue += hue_step_size;
rb_show ==
    /\ pc = "rb_show"
    /\ show("rb_poll")
    /\ base_hue' = u16(base_hue + args.hue_step_size)
    /\ UNCHANGED q_vars

rb_poll ==
    /\ pc = "rb_poll"
    /\ poll("rb_fill")
    /\ UNCHANGED q_vars

\* The same check, followed for MaxFrames frames of one call.
rb_poll_long ==
    /\ pc = "rb_poll"
    /\ poll_within("rb_fill", MaxFrames)
    /\ UNCHANGED q_vars

\* ---- neopixels::random

rnd_fill ==
    /\ pc = "rnd_fill"
    /\ pixels' = [n \in LEDs |-> gamma32(ColorRandom)]
    /\ set_indices' = LEDs
    /\ pc' = "rnd_show"
    /\ UNCHANGED <<current_mode, voltage, routine, args, base_hue, hue_index,
                   phase, t, shown, polls, frames, flushed>>
    /\ UNCHANGED q_vars

\* A mutant of rnd_show: the switch is checked after every second frame only.
rnd_show_twice ==
    /\ pc = "rnd_show"
    /\ show(IF frames = 0 THEN "rnd_fill" ELSE "rnd_poll")
    /\ UNCHANGED base_hue
    /\ UNCHANGED q_vars

rnd_show ==
    /\ pc = "rnd_show"
    /\ show("rnd_poll")
    /\ UNCHANGED base_hue
    /\ UNCHANGED q_vars

rnd_poll ==
    /\ pc = "rnd_poll"
    /\ poll("rnd_delay")
    /\ UNCHANGED q_vars

\* delay(delay_ms);
rnd_delay ==
    /\ pc = "rnd_delay"
    /\ delay("rnd_fill")
    /\ UNCHANGED q_vars

\* sq(::random(UINT8_MAX + 1)): sq is Arduino.h's, and where it is the macro
\* ((x)*(x)) its argument is evaluated twice: the product of two draws,
\* which are one and the same draw where sq is a function.
sq_random(first, second) == first * second

\* A mutant of random_colour: the product is divided by UINT8_MAX / 2, and
\* the quotient is cut to 8 bits by strip.Color.
random_colour_doubled(first, second) ==
    u8(sq_random(first, second) \div (UINT8_MAX \div 2))

\* sq(::random(UINT8_MAX + 1)) / UINT8_MAX, as a uint8_t argument of
\* strip.Color
random_colour(first, second) == u8(sq_random(first, second) \div UINT8_MAX)

\* sq(::random(UINT8_MAX + 1)) / (2 * UINT8_MAX), likewise
random_white(first, second) ==
    u8(sq_random(first, second) \div (2 * UINT8_MAX))

\* ---- neopixels::pulsing_colours

\* const uint16_t hue = hue_index * (UINT16_MAX / n_colours) + hue_offset;
pulsing_hue ==
    u16(hue_index * (UINT16_MAX \div args.n_colours) + args.hue_offset)

\* A mutant of pulsing_offset: three quarters of the 256 entries of the table.
pulsing_offset_exact == u8(3 * ((UINT8_MAX + 1) \div 4))

\* const uint8_t offset = 3 * (UINT8_MAX / 4);
pulsing_offset == u8(3 * (UINT8_MAX \div 4))

\* max(a, b) of Arduino.h
max(a, b) == IF a > b THEN a ELSE b

\* A mutant of pulsing_value: what sine8 returned is used as it is.
pulsing_value_unclamped(sine) == u8(sine)

\* const uint8_t value = max(strip.sine8(phase + offset), UINT8_MAX / 16);
\* as a function of what sine8 returned
pulsing_value(sine) == u8(max(sine, UINT8_MAX \div 16))

\* strip.sine8(phase + offset): the index into the sine table
sine8_index == u8(phase + pulsing_offset)

pl_fill ==
    /\ pc = "pl_fill"
    /\ pixels' = fill(gamma32(ColorHSVW_sine8(pulsing_hue, UINT8_MAX,
                                              sine8_index, UINT8_MAX \div 16,
                                              args.white)))
    /\ pc' = "pl_show"
    /\ UNCHANGED <<current_mode, voltage, routine, args, base_hue, hue_index,
                   phase, t, shown, set_indices, polls, frames, flushed>>
    /\ UNCHANGED q_vars

pl_show ==
    /\ pc = "pl_show"
    /\ show("pl_poll")
    /\ UNCHANGED base_hue
    /\ UNCHANGED q_vars

pl_poll ==
    /\ pc = "pl_poll"
    /\ poll("pl_delay")
    /\ UNCHANGED q_vars

\* delay(delay_ms); and the loops' steps: ++phase while phase <= UINT8_MAX - 25,
\* then ++hue_index while hue_index < n_colours, then the while (true) again.
pl_delay ==
    /\ pc = "pl_delay"
    /\ pc' = "pl_fill"
    /\ IF u8(phase + 1) <= (UINT8_MAX - 25)
       THEN /\ phase' = u8(phase + 1)
            /\ hue_index' = hue_index
       ELSE /\ phase' = 25
            /\ hue_index' = IF u8(hue_index + 1) < args.n_colours
                            THEN u8(hue_index + 1)
                            ELSE 0
    /\ UNCHANGED <<current_mode, voltage, routine, args, base_hue, t, pixels,
                   shown, set_indices, polls, frames, flushed>>
    /\ UNCHANGED q_vars

\* ---- neopixels::chasing_dots

\* const uint16_t n_timepoints = n_leds + ((n_dots - 1) * separation) + n_fade + 3;
n_timepoints ==
    u16(n_leds + ((args.n_dots - 1) * args.separation) + args.n_fade + 3)

\* A mutant of intensities: n_fade + 1 levels of UINT8_MAX / n_fade, the
\* first of which does not fit in 8 bits.
intensities_wide(n_f) ==
    u8((args.n_fade + 1 - n_f) * (UINT8_MAX \div args.n_fade))

\* intensities[n_f] = (n_fade - n_f) * (UINT8_MAX / (n_fade + 1));
intensities(n_f) ==
    u8((args.n_fade - n_f) * (UINT8_MAX \div (args.n_fade + 1)))

\* const uint16_t offset = n * separation;
dot_offset(n) == u16(n * args.separation)

\* if (t <= (offset + n_leds)) { strip.setPixelColor(t - offset, colour); }
head_writes(n) ==
    IF t <= (dot_offset(n) + n_leds)
    THEN << <<u16(t - dot_offset(n)), gamma32(Color(0, 0, 0, UINT8_MAX))>> >>
    ELSE << >>

\* for (uint8_t n_f = 0; n_f < n_fade; n_f++) {
\*     if (t <= (offset + n_f + 1 + n_leds)) {
\*         strip.setPixelColor(t - offset - n_f - 1, colour); } }
RECURSIVE fade_writes(_, _)
fade_writes(n, n_f) ==
    IF n_f < args.n_fade
    THEN (IF t <= (dot_offset(n) + n_f + 1 + n_leds)
          THEN << <<u16(t - dot_offset(n) - n_f - 1),
                    gamma32(Color(0, 0, 0, intensities(n_f)))>> >>
          ELSE << >>)
         \o fade_writes(n, n_f + 1)
    ELSE << >>

\* for (uint8_t n = 0; n < n_dots; ++n) {
\*     if (t < offset) {break;}
\*     if (t > (n_leds + offset + n_fade)) {continue;}
\*     ... }
\* The calls of setPixelColor of one frame, in order, as <<index, colour>>.
RECURSIVE dot_writes(_)
dot_writes(n) ==
    IF n < args.n_dots
    THEN IF t < dot_offset(n)
         THEN << >>
         ELSE IF t > (n_leds + dot_offset(n) + args.n_fade)
              THEN dot_writes(n + 1)
              ELSE head_writes(n) \o fade_writes(n, 0) \o dot_writes(n + 1)
    ELSE << >>

\* strip.setPixelColor(n, c), call by call: the library stores c when
\* n < numPixels() and ignores the call otherwise.
RECURSIVE setPixelColors(_, _)
setPixelColors(buffer, writes) ==
    IF writes = << >>
    THEN buffer
    ELSE LET w == Head(writes)
         IN  setPixelColors(
                 IF w[1] \in LEDs THEN [buffer EXCEPT ![w[1]] = w[2]] ELSE buffer,
                 Tail(writes))

\* A mutant of cd_fill: the buffer is not cleared, and the dots of timestep t
\* are written over the frame before.
cd_fill_unclear ==
    /\ pc = "cd_fill"
    /\ pixels' = setPixelColors(pixels, dot_writes(0))
    /\ set_indices' = {dot_writes(0)[i][1] : i \in 1..Len(dot_writes(0))}
    /\ pc' = "cd_show"
    /\ UNCHANGED <<current_mode, voltage, routine, args, base_hue, hue_index,
                   phase, t, shown, polls, frames, flushed>>
    /\ UNCHANGED q_vars

\* strip.clear(); and the dots of timestep t
cd_fill ==
    /\ pc = "cd_fill"
    /\ pixels' = setPixelColors(fill(Off), dot_writes(0))
    /\ set_indices' = {dot_writes(0)[i][1] : i \in 1..Len(dot_writes(0))}
    /\ pc' = "cd_show"
    /\ UNCHANGED <<current_mode, voltage, routine, args, base_hue, hue_index,
                   phase, t, shown, polls, frames, flushed>>
    /\ UNCHANGED q_vars

\* A mutant of cd_show: the timeline is walked without checking the switch.
cd_show_unpolled ==
    /\ pc = "cd_show"
    /\ show("cd_delay")
    /\ UNCHANGED base_hue
    /\ UNCHANGED q_vars

cd_show ==
    /\ pc = "cd_show"
    /\ show("cd_poll")
    /\ UNCHANGED base_hue
    /\ UNCHANGED q_vars

cd_poll ==
    /\ pc = "cd_poll"
    /\ poll("cd_delay")
    /\ UNCHANGED q_vars

\* A mutant of cd_delay: the routine returns once the timeline has been walked.
cd_delay_once ==
    /\ pc = "cd_delay"
    /\ IF u16(t + 1) < n_timepoints
       THEN /\ pc' = "cd_fill"
            /\ t' = u16(t + 1)
            /\ UNCHANGED <<routine, args, base_hue, hue_index, phase,
                           set_indices, polls, frames, flushed>>
       ELSE return
    /\ UNCHANGED <<current_mode, voltage, pixels, shown, frames, flushed>>
    /\ UNCHANGED q_vars

\* delay(delay_ms); ++t while t < n_timepoints, then the while (true) again
cd_delay ==
    /\ pc = "cd_delay"
    /\ pc' = "cd_fill"
    /\ t' = IF u16(t + 1) < n_timepoints THEN u16(t + 1) ELSE 0
    /\ UNCHANGED <<current_mode, voltage, routine, args, base_hue, hue_index,
                   phase, pixels, shown, set_indices, polls, frames, flushed>>
    /\ UNCHANGED q_vars

\* ------------------------------------------------------------------------

Next ==
    \/ loop_read
    \/ case_BRIGHT_WHITE
    \/ case_DIM_WHITE
    \/ case_PASTEL_RAINBOW
    \/ case_ROLLING_RAINBOW
    \/ case_ROLLING_RAINBOW_RING
    \/ case_PULSING_COLOURS
    \/ case_CHASING_DOTS
    \/ case_RANDOM
    \/ case_ERROR
    \/ er_show
    \/ er_delay
    \/ loop_delay
    \/ cc_fill
    \/ cc_show
    \/ cc_poll
    \/ cc_delay
    \/ rb_fill
    \/ rb_show
    \/ rb_poll
    \/ rnd_fill
    \/ rnd_show
    \/ rnd_poll
    \/ rnd_delay
    \/ pl_fill
    \/ pl_show
    \/ pl_poll
    \/ pl_delay
    \/ cd_fill
    \/ cd_show
    \/ cd_poll
    \/ cd_delay

Spec == Init /\ [][Next]_vars

\* The sketch is the only thing the processor runs and every delay ends: a
\* step that can be taken is taken.
FairSpec == Spec /\ WF_vars(Next)

\* ------------------------------------------------------------------------
\* rainbow on its own: one call from loop(), for each of the three modes that
\* call it, followed until it returns

RainbowModes == {PASTEL_RAINBOW, ROLLING_RAINBOW, ROLLING_RAINBOW_RING}

\* The state in which loop(), in its first iteration, has called rainbow.
HueInit ==
    /\ pc = "rb_fill"
    /\ \E m \in RainbowModes :
        /\ current_mode = m
        /\ voltage = nominal(m)
        /\ args = CASE m = PASTEL_RAINBOW ->
                            rainbow_args(4, 0, u8(2 * (UINT8_MAX \div 3)))
                     [] m = ROLLING_RAINBOW ->
                            rainbow_args(64, u16(UINT16_MAX \div n_leds),
                                         UINT8_MAX \div 4)
                     [] m = ROLLING_RAINBOW_RING ->
                            rainbow_args(256,
                                         u16(UINT16_MAX \div n_leds_per_ring),
                                         0)
    /\ routine = "rainbow"
    /\ base_hue = 0
    /\ hue_index = 0
    /\ phase = 25
    /\ t = 0
    /\ pixels = fill(Off)
    /\ shown = fill(Off)
    /\ set_indices = {}
    /\ polls = 0
    /\ frames = 0
    /\ flushed = FALSE
    /\ q_voltage = 0
    /\ q_value = 0
    /\ q_mode = ERROR
    /\ q_done = FALSE
    /\ p_sine = 0 - 1
    /\ p_value = 0
    /\ r_first = 0 - 1
    /\ r_second = 0 - 1
    /\ r_colour = 0
    /\ r_white = 0

HueNext ==
    \/ rb_fill
    \/ rb_show
    \/ rb_poll_long

HueSpec == HueInit /\ [][HueNext]_vars

\* ------------------------------------------------------------------------
\* The value of a frame of pulsing_colours on its own, for everything the
\* library's sine8, a uint8_t, can return

p_pulsing_value ==
    /\ \E sine \in 0..UINT8_MAX :
        /\ p_sine' = sine
        /\ p_value' = pulsing_value(sine)
    /\ UNCHANGED <<q_voltage, q_value, q_mode, q_done, r_vars>>
    /\ UNCHANGED sketch_vars

PulseNext == p_pulsing_value

PulseSpec == Init /\ [][PulseNext]_vars

\* ------------------------------------------------------------------------
\* The channel values of random on their own, for every pair of draws of
\* ::random(UINT8_MAX + 1)

r_random_channels ==
    /\ r_first < 0
    /\ \E first, second \in 0..UINT8_MAX :
        /\ r_first' = first
        /\ r_second' = second
        /\ r_colour' = random_colour(first, second)
        /\ r_white' = random_white(first, second)
    /\ UNCHANGED <<q_voltage, q_value, q_mode, q_done, p_vars>>
    /\ UNCHANGED sketch_vars

RandNext == r_random_channels

RandSpec == Init /\ [][RandNext]_vars

\* ------------------------------------------------------------------------
\* read_mode on its own, applied to every raw sample

\* One call of read_mode with analogRead returning v.
q_read_mode ==
    \E v \in RawSamples :
        /\ q_voltage' = v
        /\ q_value' = IF v \in ValidSamples THEN extend(v) ELSE 0
        /\ q_mode' = read_mode(v)
        /\ q_done' = TRUE
        /\ UNCHANGED <<p_vars, r_vars>>
        /\ UNCHANGED sketch_vars

QuantNext == q_read_mode

QuantSpec == Init /\ [][QuantNext]_vars

\* The ascending band test on its own, applied to every 16-bit value.
q_find_stop ==
    /\ ~q_done
    /\ \E x \in ExtendedValues :
        /\ q_value' = x
        /\ q_mode' = find_stop(x, 0)
    /\ q_done' = TRUE
    /\ UNCHANGED <<q_voltage, p_vars, r_vars>>
    /\ UNCHANGED sketch_vars

BandNext == q_find_stop

BandSpec == Init /\ [][BandNext]_vars

\* ------------------------------------------------------------------------
\* Properties

\* C1: for valid samples s1 < s2, read_mode(s1) <= read_mode(s2) in the order
\* of the ordinary modes, and neither result is ERROR: whenever a valid
\* sample is read after a lower valid one, the mode returned is an ordinary
\* mode that is not below the mode returned before.
C1_Monotonic ==
    [][(/\ q_done
        /\ q_voltage \in ValidSamples
        /\ q_voltage' \in ValidSamples
        /\ q_voltage < q_voltage')
       => (/\ q_mode \in OrdinaryModes
           /\ q_mode' \in OrdinaryModes
           /\ q_mode <= q_mode')]_vars

\* C1's case: a valid sample above the lowest band has been quantised to a
\* mode above the first.
C1_Witness ==
    /\ q_done
    /\ q_voltage = 600
    /\ q_mode = ROLLING_RAINBOW_RING

\* C3: read_mode returns ERROR exactly for the samples outside [0, 1023], and
\* one of the eight ordinary modes for every sample inside.
C3_ErrorIffOutOfRange ==
    q_done =>
        /\ (q_mode = ERROR) <=> (q_voltage < 0 \/ q_voltage > ADC_MAX)
        /\ (q_voltage \in ValidSamples) => (q_mode \in OrdinaryModes)
        /\ q_mode \in Modes

\* C3's case: the first sample past the top of the range was read as ERROR.
C3_Witness ==
    /\ q_done
    /\ q_voltage = ADC_MAX + 1
    /\ q_mode = ERROR

\* C4: a reading at stop k's nominal ladder voltage round(k * 1023 / 7) is
\* quantised to mode k, for every k in 0..7; so 0 gives BRIGHT_WHITE, 1023
\* gives RANDOM, and each ordinary mode is selected by a valid sample.
C4_StopsInOrder ==
    q_done =>
        /\ \A k \in 0..7 :
              (q_voltage = (2 * k * 1023 + 7) \div 14) => (q_mode = k)
        /\ (q_voltage = 0) => (q_mode = BRIGHT_WHITE)
        /\ (q_voltage = 1023) => (q_mode = RANDOM)

\* C4's case: the sixth stop's nominal reading selected CHASING_DOTS.
C4_Witness ==
    /\ q_done
    /\ q_voltage = nominal(5)
    /\ q_voltage = 731
    /\ q_mode = CHASING_DOTS

\* C5: the band test is strict: a 16-bit value at or above
\* (2 * i + 1) * delta never yields a mode <= i, and a value equal to it
\* yields mode i + 1, for every band i in 0..6.
C5_StrictBands ==
    q_done =>
        \A i \in 0..(n_stops - 2) :
            /\ (q_value >= (2 * i + 1) * delta) => (q_mode > i)
            /\ (q_value = (2 * i + 1) * delta) => (q_mode = i + 1)

\* C5's case: the value equal to the fourth threshold went to the upper band.
C5_Witness ==
    /\ q_done
    /\ q_value = 7 * delta
    /\ q_mode = ROLLING_RAINBOW_RING

\* The smallest valid sample that read_mode takes to mode i; past the top of
\* the range when there is none.
band_starts ==
    [i \in 1..(n_stops - 1) |->
        LET S == {v \in ValidSamples : read_mode(v) = i}
        IN  IF S = {}
            THEN ADC_MAX + 1
            ELSE CHOOSE v \in S : \A u \in S : v <= u]

\* C6: the band boundaries in raw ADC units, b_i = the smallest valid sample
\* read as mode i (i = 1..7), are evenly spaced to within one unit: the gap
\* from a sample that is such a boundary to the next boundary differs from
\* every other gap b_(j+1) - b_j by at most 1.
C6_EvenBands ==
    (/\ q_done
     /\ q_mode \in 1..(n_stops - 2)
     /\ q_voltage = band_starts[q_mode])
    => \A j \in 1..(n_stops - 2) :
          LET gap_here == band_starts[q_mode + 1] - q_voltage
              gap_j == band_starts[j + 1] - band_starts[j]
          IN  /\ gap_here - gap_j <= 1
              /\ gap_j - gap_here <= 1

\* C6's case: the sample at the one boundary whose gap is a unit wider.
C6_Witness ==
    /\ q_done
    /\ q_voltage = 512
    /\ q_voltage = band_starts[ROLLING_RAINBOW_RING]
    /\ band_starts[CHASING_DOTS] - q_voltage = 147

\* C7: every index chasing_dots gives to setPixelColor lies in
\* [0, n_leds - 1].
C7_IndicesInRange ==
    (routine = "chasing_dots") => (set_indices \subseteq LEDs)

\* The hue of a pixel written by rainbow.
hue_of(pixel) == pixel[2][2]

\* C8 as stated: in every rainbow frame the hue of LED n is
\* (base_hue + n * phase_offset) mod 65536.
C8_HuePlus ==
    (pc = "rb_show") =>
        \A n \in LEDs :
            hue_of(pixels[n]) = (base_hue + n * args.phase_offset) % 65536

\* C8 as amended: in every rainbow frame the hue of LED n is
\* (base_hue - n * phase_offset) mod 65536: a value in [0, 65535] that wraps
\* and is never clamped, and with phase_offset = 0 all LEDs have the same hue.
C8_HueMinus ==
    (pc = "rb_show") =>
        /\ \A n \in LEDs :
            /\ hue_of(pixels[n]) = (base_hue - n * args.phase_offset) % 65536
            /\ hue_of(pixels[n]) \in 0..65535
        /\ (args.phase_offset = 0) =>
              \A n, m \in LEDs : hue_of(pixels[n]) = hue_of(pixels[m])

\* C8's case: a frame of the ring rainbow in which the hue of the second LED
\* has wrapped below zero to a value near the maximum.
C8_Witness ==
    /\ pc = "rb_show"
    /\ current_mode = ROLLING_RAINBOW_RING
    /\ base_hue = 256
    /\ hue_of(pixels[1]) = 65536 + 256 - 5461

PollPcs == {"cc_poll", "rb_poll", "rnd_poll", "pl_poll", "cd_poll"}

\* C9: a routine returns to loop() only in a poll whose quantised reading
\* differs from current_mode, and a poll whose reading quantises to
\* current_mode leaves the routine running.
C9_ReturnOnlyOnChange ==
    [][(routine # "none") =>
          /\ (routine' = "none")
                <=> (pc \in PollPcs /\ read_mode(voltage') # current_mode)
          /\ (routine' = "none") => (pc' = "settle")
          /\ (routine' # "none") => (routine' = routine /\ args' = args)]_vars

\* C9's case: the switch held at the first stop, bright white showing, and
\* constant_colour still running after several polls.
C9_Witness ==
    /\ routine = "constant_colour"
    /\ current_mode = BRIGHT_WHITE
    /\ voltage = 0
    /\ polls >= 3
    /\ shown = fill(gamma32(Color(0, 0, 0, 255)))

\* What loop() is to call for each ordinary mode.
Dispatched(m) ==
    CASE m = BRIGHT_WHITE ->
            [routine |-> "constant_colour",
             colour |-> gamma32(Color(0, 0, 0, 255))]
      [] m = DIM_WHITE ->
            [routine |-> "constant_colour",
             colour |-> gamma32(Color(0, 0, 0, 127))]
      [] m = PASTEL_RAINBOW ->
            [routine |-> "rainbow", hue_step_size |-> 4, phase_offset |-> 0,
             white |-> 170, saturation |-> 255, value |-> 255]
      [] m = ROLLING_RAINBOW ->
            [routine |-> "rainbow", hue_step_size |-> 64,
             phase_offset |-> 1092, white |-> 63, saturation |-> 255,
             value |-> 255]
      [] m = ROLLING_RAINBOW_RING ->
            [routine |-> "rainbow", hue_step_size |-> 256,
             phase_offset |-> 5461, white |-> 0, saturation |-> 255,
             value |-> 255]
      [] m = CHASING_DOTS ->
            [routine |-> "chasing_dots", n_dots |-> 5, n_fade |-> 8,
             separation |-> 40, delay_ms |-> 50]
      [] m = PULSING_COLOURS ->
            [routine |-> "pulsing_colours", n_colours |-> 6, delay_ms |-> 10,
             white |-> 0, hue_offset |-> 0]
      [] m = RANDOM ->
            [routine |-> "random", delay_ms |-> 25]

\* C10: if from some point on every reading is that of one valid stop, then
\* from some point on current_mode is that stop's mode and loop() is inside
\* the routine bound to it, called with that mode's parameters: a routine
\* running for another stop has returned, and the next iteration of loop()
\* has dispatched on the new reading.
C10_SwitchTakesEffect ==
    \A v \in Voltages \cap ValidSamples :
        <>[](voltage = v)
        => <>[](/\ current_mode = read_mode(v)
                /\ routine = Dispatched(read_mode(v)).routine
                /\ args = Dispatched(read_mode(v)))

\* C10's case: the switch went from the first stop to the third: rainbow runs
\* with the pastel parameters while the LEDs still show bright white.
C10_Witness ==
    /\ routine = "rainbow"
    /\ current_mode = PASTEL_RAINBOW
    /\ voltage = nominal(2)
    /\ args = [routine |-> "rainbow", hue_step_size |-> 4, phase_offset |-> 0,
               white |-> 170, saturation |-> 255, value |-> 255]
    /\ shown = fill(gamma32(Color(0, 0, 0, 255)))

\* C11: while a routine runs, at most one frame is flushed between two
\* consecutive readings of the switch, and a reading that quantises to a mode
\* other than current_mode makes the routine return in that very step, with
\* no further frame flushed: a change of the switch that lasts is answered
\* after at most one more frame.
C11_OneFrameLatency ==
    [][(routine # "none") =>
          /\ frames' <= 1
          /\ (pc \in PollPcs /\ read_mode(voltage') # current_mode)
                => (routine' = "none" /\ shown' = shown /\ frames' = 0)]_vars

\* C11's case: random has flushed one more frame after earlier checks and is
\* about to read the switch.
C11_Witness ==
    /\ routine = "random"
    /\ pc = "rnd_poll"
    /\ polls >= 2
    /\ frames = 1
    /\ shown = fill(gamma32(ColorRandom))

Routines ==
    {"constant_colour", "rainbow", "random", "pulsing_colours", "chasing_dots"}

\* C12: the switch of loop() is exhaustive: on each of the eight ordinary
\* modes it calls one of the five routines, the one bound to the mode with
\* the mode's parameters, and leaves the buffer alone; the red fill is
\* reached only when current_mode is ERROR or no mode of the enumeration.
C12_ExhaustiveDispatch ==
    [][(pc = "switch") =>
          /\ (current_mode \in OrdinaryModes) =>
                /\ routine' \in Routines
                /\ args' = Dispatched(current_mode)
                /\ routine' = args'.routine
                /\ pc' # "er_show"
                /\ pixels' = pixels
          /\ (pc' = "er_show") =>
                /\ current_mode \notin {BRIGHT_WHITE, DIM_WHITE, PASTEL_RAINBOW,
                                        ROLLING_RAINBOW, ROLLING_RAINBOW_RING,
                                        CHASING_DOTS, PULSING_COLOURS, RANDOM}
                /\ routine' = "none"]_vars

\* C12's case: the sixth stop has just been dispatched to chasing_dots, with
\* the red of an earlier out-of-range reading still on the LEDs.
C12_Witness ==
    /\ current_mode = CHASING_DOTS
    /\ routine = "chasing_dots"
    /\ pc = "cd_fill"
    /\ polls = 0
    /\ t = 0
    /\ shown = fill(gamma32(Color(255, 0, 0, 0)))

\* The fallback colour of the default arm.
Red == gamma32(Color(255, 0, 0, 0))

\* C13: on a mode that is no ordinary mode, loop() fills the whole buffer with
\* the fallback colour, flushes it and pauses without calling a routine and
\* without reading the switch; the iteration always gets back to the top of
\* loop() with the fallback colour showing, and a valid reading taken there
\* becomes current_mode, an ordinary mode.
C13_ErrorRetry ==
    /\ [][/\ ((pc = "switch" /\ current_mode \notin OrdinaryModes)
                  => (pixels' = fill(Red) /\ pc' = "er_show"))
           /\ ((pc = "er_show") => (shown' = fill(Red) /\ pc' = "er_delay"))
           /\ ((pc = "er_delay") => (pc' = "settle"))
           /\ ((pc \in {"er_show", "er_delay"})
                  => (/\ routine' = "none"
                      /\ voltage' = voltage
                      /\ current_mode' = current_mode))
           /\ ((pc = "loop" /\ voltage' \in ValidSamples)
                  => (/\ current_mode' = read_mode(voltage')
                      /\ current_mode' \in OrdinaryModes))]_vars
    /\ ((pc = "switch" /\ current_mode \notin OrdinaryModes)
           ~> (pc = "loop" /\ shown = fill(Red) /\ routine = "none"))

\* C13's case: after an iteration on an out-of-range reading, the next
\* iteration has read the first stop: the fallback colour is still showing
\* and BRIGHT_WHITE is about to be dispatched.
C13_Witness ==
    /\ pc = "switch"
    /\ current_mode = BRIGHT_WHITE
    /\ voltage = 0
    /\ shown = fill(Red)
    /\ pixels = fill(Red)

\* C14 as stated: in every routine, every check of the switch comes after
\* exactly one frame flushed since the previous reading of the switch.
C14_OneFramePerCheck ==
    (pc \in PollPcs) => (frames = 1)

\* C14 as amended: in every routine a check of the switch comes after at most
\* one frame flushed since the previous reading, and with the buffer wholly
\* flushed, so a full frame has been shown before a routine returns; in
\* rainbow, random, pulsing_colours and chasing_dots it is exactly one frame,
\* while constant_colour flushes its one frame before its first check and
\* none between its later checks.
C14_AtMostOneFramePerCheck ==
    (pc \in PollPcs) =>
        /\ frames <= 1
        /\ (pc # "cc_poll") => (frames = 1)
        /\ (pc = "cc_poll") => ((frames = 1) <=> (polls = 0))
        /\ shown = pixels
        /\ flushed

\* C14's case: constant_colour at a later check, with bright white showing
\* and no frame flushed since the check before.
C14_Witness ==
    /\ pc = "cc_poll"
    /\ routine = "constant_colour"
    /\ polls >= 1
    /\ frames = 0
    /\ shown = fill(gamma32(Color(0, 0, 0, 255)))

\* C15: current_mode is written by the first statement of loop() only, which
\* stores what read_mode returned; the checks of the routines, which call
\* read_mode, and every other step leave it as it is, so it keeps one value
\* from the call of a routine to the routine's return.
C15_SingleWriter ==
    [][/\ (current_mode' # current_mode)
            => (/\ pc = "loop"
                /\ pc' = "switch"
                /\ current_mode' = read_mode(voltage'))
       /\ (routine # "none" \/ routine' # "none")
            => (current_mode' = current_mode)
       /\ (pc \in PollPcs) => (current_mode' = current_mode)]_vars

\* C15's case: constant_colour has returned on a reading of the last stop,
\* and current_mode is still BRIGHT_WHITE.
C15_Witness ==
    /\ pc = "settle"
    /\ routine = "none"
    /\ current_mode = BRIGHT_WHITE
    /\ voltage = nominal(7)
    /\ read_mode(voltage) = RANDOM
    /\ shown = fill(gamma32(Color(0, 0, 0, 255)))

Abs(x) == IF x < 0 THEN 0 - x ELSE x

\* C16 as stated: every valid sample v is read as the stop k that minimises
\* |v - k * 1023 / 7|.
C16_NearestStop ==
    (q_done /\ q_voltage \in ValidSamples) =>
        \A k \in 0..(n_stops - 1) :
            Abs(7 * q_voltage - 1023 * q_mode)
                <= Abs(7 * q_voltage - 1023 * k)

\* C16 as amended: every valid sample v is read as the stop nearest to it on
\* the 16-bit scale of the comparison, where v is 64 * v and stop k is at
\* k * 65535 / 7. Against stops at k * 1023 / 7 that is the nearest stop
\* except for the samples 658, 804 and 950, which lie less than one unit
\* above the midpoints 657.6, 803.8 and 949.9 and are read as the stop below.
C16_NearestOnScale ==
    (q_done /\ q_voltage \in ValidSamples) =>
        /\ \A k \in 0..(n_stops - 1) :
              Abs(7 * 64 * q_voltage - 65535 * q_mode)
                  <= Abs(7 * 64 * q_voltage - 65535 * k)
        /\ IF q_voltage \in {658, 804, 950}
           THEN /\ Abs(7 * q_voltage - 1023 * (q_mode + 1))
                      < Abs(7 * q_voltage - 1023 * q_mode)
                /\ 14 * (q_voltage - 1) < (2 * q_mode + 1) * 1023
                /\ (2 * q_mode + 1) * 1023 < 14 * q_voltage
           ELSE \A k \in 0..(n_stops - 1) :
                    Abs(7 * q_voltage - 1023 * q_mode)
                        <= Abs(7 * q_voltage - 1023 * k)

\* C16's case: the sample 658, nearer to the sixth stop's 730.7 than to the
\* fifth stop's 584.6, was read as the fifth stop.
C16_Witness ==
    /\ q_done
    /\ q_voltage = 658
    /\ q_mode = ROLLING_RAINBOW_RING
    /\ Abs(7 * 658 - 1023 * 5) < Abs(7 * 658 - 1023 * 4)

\* C17: nothing in read_mode wraps in 16 bits, and the thresholds ascend: for
\* a valid sample the extended value is sample * 64 and at most 65535; delta
\* is 65535 / (2 * (n_stops - 1)); each threshold (2i + 1) * delta, i in
\* 0..n_stops - 2, is at most 65535 and below the next; and the threshold
\* after the last, (2 * (n_stops - 1) + 1) * delta, would exceed 65535.
C17_NoWrap ==
    (q_done /\ q_voltage \in ValidSamples) =>
        /\ q_value = q_voltage * 64
        /\ q_value <= 65535
        /\ delta = 65535 \div (2 * (n_stops - 1))
        /\ \A i \in 0..(n_stops - 2) :
              /\ threshold(i) = (2 * i + 1) * (65535 \div (2 * (n_stops - 1)))
              /\ (2 * i + 1) * (65535 \div (2 * (n_stops - 1))) <= 65535
        /\ \A i \in 0..(n_stops - 3) : threshold(i) < threshold(i + 1)
        /\ (2 * (n_stops - 1) + 1) * delta > 65535
        /\ q_mode = IF q_value >= threshold(n_stops - 2)
                    THEN n_stops - 1
                    ELSE CHOOSE i \in 0..(n_stops - 2) :
                             /\ q_value < threshold(i)
                             /\ \A j \in 0..(i - 1) : q_value >= threshold(j)

\* C17's case: the largest sample, whose extended value 65472 is the largest
\* the comparison sees, passed all seven thresholds.
C17_Witness ==
    /\ q_done
    /\ q_voltage = ADC_MAX
    /\ q_value = 65472
    /\ q_value >= threshold(n_stops - 2)
    /\ threshold(n_stops - 2) = 60853
    /\ q_mode = RANDOM

\* C18: every iteration of loop() stores in current_mode the mode quantised
\* from the sample it takes, whatever current_mode was and whatever the
\* previous routine last read, and the switch that follows acts on that
\* mode: an ordinary mode calls the routine bound to it, any other the red
\* fill.
C18_FreshModeDispatched ==
    [][/\ (pc = "loop")
            => (/\ pc' = "switch"
                /\ current_mode' = read_mode(voltage'))
       /\ (pc = "switch")
            => (/\ current_mode = read_mode(voltage)
                /\ IF read_mode(voltage) \in OrdinaryModes
                   THEN args' = Dispatched(read_mode(voltage))
                   ELSE pixels' = fill(Red) /\ routine' = "none")]_vars

\* C18's case: bright white was showing, its routine returned, and the next
\* iteration read an out-of-range sample: ERROR is about to be dispatched.
C18_Witness ==
    /\ pc = "switch"
    /\ shown = fill(gamma32(Color(0, 0, 0, 255)))
    /\ voltage = ADC_MAX + 1
    /\ current_mode = ERROR
    /\ flushed

\* C19: current_mode starts as ERROR, and wherever it is read, at the switch
\* of loop() and at the check of a routine, it holds the mode quantised from
\* the latest sample of the pin, never the value of its declaration.
C19_PlaceholderNeverRead ==
    /\ (pc = "loop" /\ ~flushed) => (current_mode = ERROR)
    /\ (pc = "switch" \/ routine # "none")
          => (current_mode = read_mode(voltage))

\* C19's case: the first dispatch, before any frame has been flushed, on the
\* mode of a sample of the third stop.
C19_Witness ==
    /\ pc = "switch"
    /\ ~flushed
    /\ voltage = nominal(2)
    /\ current_mode = PASTEL_RAINBOW

\* C20 as stated: the first frame loop() flushes is the fallback colour.
C20_FallbackFirst ==
    [][(~flushed /\ flushed') => (shown' = fill(Red))]_vars

\* C20 as amended: the first frame loop() flushes is the first frame of the
\* mode quantised from the first sample: the fallback colour when that sample
\* is out of range, and otherwise the first frame of the routine bound to the
\* sample's mode, which is not the fallback colour.
C20_FirstFrameOfFirstSample ==
    [][(~flushed /\ flushed') =>
          /\ current_mode = read_mode(voltage)
          /\ shown' = pixels
          /\ IF voltage \in ValidSamples
             THEN /\ routine = Dispatched(read_mode(voltage)).routine
                  /\ args = Dispatched(read_mode(voltage))
                  /\ polls = 0
                  /\ shown' # fill(Red)
             ELSE /\ routine = "none"
                  /\ shown' = fill(Red)]_vars

\* C20's case: nothing has been flushed yet, the first sample was the first
\* stop's, and constant_colour is about to flush bright white.
C20_Witness ==
    /\ ~flushed
    /\ pc = "cc_show"
    /\ current_mode = BRIGHT_WHITE
    /\ voltage = 0
    /\ pixels = fill(gamma32(Color(0, 0, 0, 255)))
    /\ shown = fill(Off)

\* Where read_mode is about to be called: at the top of loop() and at the
\* check of each routine.
SamplePcs == PollPcs \cup {"loop"}

\* C21: whenever read_mode is about to be called, by loop() or by a routine,
\* and whenever a routine has returned, the pixel buffer holds no write made
\* after the latest show(): the LEDs display exactly the buffer.
C21_NoPartialFrame ==
    (pc \in SamplePcs \/ pc = "settle") => (shown = pixels)

\* C21's case: chasing_dots is about to check the switch with the first dot,
\* head at LED 30 and trail behind it, both in the buffer and on the LEDs.
C21_Witness ==
    /\ pc = "cd_poll"
    /\ t = 30
    /\ pixels[30] = gamma32(Color(0, 0, 0, 255))
    /\ pixels[29] = gamma32(Color(0, 0, 0, 224))
    /\ pixels[21] = Off
    /\ shown = pixels

\* How many steps the sketch can have taken, at most, since it last sampled
\* the pin.
StepsSinceSample(p) ==
    CASE p \in SamplePcs -> 0
      [] p \in {"switch", "cc_delay", "rnd_delay", "pl_delay", "cd_delay"} -> 1
      [] p \in {"cc_fill", "rb_fill", "rnd_fill", "pl_fill", "cd_fill",
                "er_show"} -> 2
      [] p \in {"cc_show", "rb_show", "rnd_show", "pl_show", "cd_show",
                "er_delay"} -> 3
      [] p = "settle" -> 4

\* C22: the sketch never stops sampling the pin. Wherever it is, it gets to
\* a call of read_mode; a call of read_mode by a routine that has made fewer
\* than MaxPolls checks, or by loop(), returns with a sample taken; and
\* between two samples there are at most five steps, a dispatch or delay, one
\* render of a frame, one flush and the settling delays, with at most one
\* frame flushed: every loop inside a routine comes to its end.
C22_SamplesForever ==
    /\ [](pc \notin SamplePcs => <>(pc \in SamplePcs))
    /\ []((pc \in SamplePcs /\ polls < MaxPolls) => <>(pc \notin SamplePcs))
    /\ [][/\ \/ pc' \in SamplePcs
             \/ StepsSinceSample(pc') > StepsSinceSample(pc)
          /\ StepsSinceSample(pc') <= 4
          /\ frames' <= 1
          /\ (pc \in SamplePcs) => (voltage' \in Voltages /\ frames' = 0)]_vars

\* C22's case: pulsing_colours has finished the phase loop of its first hue
\* and is at the check of the first frame of the second.
C22_Witness ==
    /\ pc = "pl_poll"
    /\ routine = "pulsing_colours"
    /\ hue_index = 1
    /\ phase = 25
    /\ polls = 206

\* C23: in one call of rainbow base_hue is (k * hue_step_size) mod 65536
\* after k flushed frames, starting at 0; it is 0 again exactly after every
\* 65536 / hue_step_size frames, which is 16384, 1024 and 256 frames for the
\* steps 4, 64 and 256; and the call ends only on a reading of another mode.
C23_HuePeriod ==
    /\ (pc \in {"rb_fill", "rb_show"})
          => (base_hue = (polls * args.hue_step_size) % 65536)
    /\ (pc = "rb_poll")
          => (base_hue = ((polls + 1) * args.hue_step_size) % 65536)
    /\ (pc = "rb_fill")
          => /\ args.hue_step_size \in {4, 64, 256}
             /\ (args.hue_step_size = 4)
                   => ((base_hue = 0) <=> (polls % 16384 = 0))
             /\ (args.hue_step_size = 64)
                   => ((base_hue = 0) <=> (polls % 1024 = 0))
             /\ (args.hue_step_size = 256)
                   => ((base_hue = 0) <=> (polls % 256 = 0))
    /\ (pc \notin {"rb_fill", "rb_show", "rb_poll"})
          => (routine = "none" /\ read_mode(voltage) # current_mode)

\* C23's case: the pastel rainbow has flushed 16384 frames and base_hue is
\* back at 0.
C23_Witness ==
    /\ pc = "rb_fill"
    /\ current_mode = PASTEL_RAINBOW
    /\ args.hue_step_size = 4
    /\ polls = 16384
    /\ base_hue = 0

\* C24 as stated: in every frame of ROLLING_RAINBOW_RING the hue of LED n
\* equals the hue of LED n + n_leds_per_ring.
C24_RingsEqual ==
    (pc = "rb_show" /\ current_mode = ROLLING_RAINBOW_RING) =>
        \A n \in LEDs :
            (n + 12 < n_leds) => (hue_of(pixels[n + 12]) = hue_of(pixels[n]))

\* C24 as amended: in every frame of ROLLING_RAINBOW_RING the hue of LED
\* n + n_leds_per_ring is the hue of LED n plus 4, mod 65536, as
\* 12 * (65535 / 12) is 65532: each ring shows the wheel of the ring before
\* it shifted by 4 of 65536, and the last ring that of the first shifted by
\* 16.
C24_RingsFourApart ==
    (pc = "rb_show" /\ current_mode = ROLLING_RAINBOW_RING) =>
        /\ args.phase_offset = 5461
        /\ \A n \in LEDs :
              (n + 12 < n_leds) =>
                  (hue_of(pixels[n + 12]) = (hue_of(pixels[n]) + 4) % 65536)
        /\ \A n \in 0..11 :
              hue_of(pixels[n + 48]) = (hue_of(pixels[n]) + 16) % 65536

\* C24's case: the first frame of ROLLING_RAINBOW_RING, with the first LED
\* of the first ring at hue 0 and the first LED of the second at hue 4.
C24_Witness ==
    /\ pc = "rb_show"
    /\ current_mode = ROLLING_RAINBOW_RING
    /\ base_hue = 0
    /\ hue_of(pixels[0]) = 0
    /\ hue_of(pixels[12]) = 4

\* C25: chasing_dots walks a timeline of n_timepoints =
\* n_leds + (n_dots - 1) * separation + n_fade + 3 steps, 231 as dispatched,
\* again and again: after k checks that found the mode unchanged t is
\* k mod n_timepoints; and the frame of timestep t is the dots of t written
\* into a cleared buffer, whatever the frames before it were.
C25_PeriodicTimeline ==
    (routine = "chasing_dots") =>
        /\ n_timepoints = n_leds + (args.n_dots - 1) * args.separation
                              + args.n_fade + 3
        /\ n_timepoints = 231
        /\ t \in 0..(n_timepoints - 1)
        /\ (pc \in {"cd_fill", "cd_show", "cd_poll"})
              => (t = polls % n_timepoints)
        /\ (pc = "cd_delay") => (t = (polls - 1) % n_timepoints)
        /\ (pc \in {"cd_show", "cd_poll", "cd_delay"})
              => (pixels = setPixelColors(fill(Off), dot_writes(0)))

\* C25's case: the timeline has been walked once, and the frame of t = 0 is
\* rendered again: the head of the first dot at the first LED, all else off.
C25_Witness ==
    /\ routine = "chasing_dots"
    /\ pc = "cd_show"
    /\ polls = 231
    /\ t = 0
    /\ pixels[0] = gamma32(Color(0, 0, 0, 255))
    /\ \A n \in 1..(n_leds - 1) : pixels[n] = Off

\* C26: the fade table of chasing_dots is intensities[i] =
\* (n_fade - i) * (255 / (n_fade + 1)), i in 0..n_fade - 1: no value wraps in
\* 8 bits, each is below the one before, and all are below the head's 255
\* and above 0; as dispatched they are 224, 196, ..., 28, and they are what
\* the trail of a dot is drawn with, LED by LED behind the head.
C26_FadeTable ==
    (routine = "chasing_dots") =>
        /\ \A i \in 0..(args.n_fade - 1) :
              /\ intensities(i)
                    = (args.n_fade - i) * (255 \div (args.n_fade + 1))
              /\ intensities(i) \in 1..254
              /\ (i > 0) => (intensities(i) < intensities(i - 1))
        /\ (args.n_fade = 8)
              => (\A i \in 0..7 : intensities(i) = 224 - 28 * i)
        /\ (pc \in {"cd_show", "cd_poll", "cd_delay"} /\ t \in 9..59)
              => /\ pixels[t] = gamma32(Color(0, 0, 0, 255))
                 /\ \A i \in 0..(args.n_fade - 1) :
                       pixels[t - 1 - i]
                           = gamma32(Color(0, 0, 0,
                                 (args.n_fade - i)
                                     * (255 \div (args.n_fade + 1))))

\* C26's case: the first dot with its head at LED 20 and the whole trail
\* behind it, from 224 at LED 19 down to 28 at LED 12.
C26_Witness ==
    /\ routine = "chasing_dots"
    /\ pc = "cd_show"
    /\ t = 20
    /\ pixels[19] = gamma32(Color(0, 0, 0, 224))
    /\ pixels[12] = gamma32(Color(0, 0, 0, 28))
    /\ pixels[11] = Off

\* C27: the value pulsing_colours renders a frame with is at least
\* UINT8_MAX / 16 = 15 whatever sine8 returns: it is what sine8 returned when
\* that is 15 or more and 15 otherwise, never 0.
C27_ValueFloor ==
    (p_sine >= 0) =>
        /\ p_value >= 15
        /\ p_value <= 255
        /\ (p_sine >= 15) => (p_value = p_sine)
        /\ (p_sine < 15) => (p_value = 15)

\* C27's case: sine8 returned 0, the bottom of the wave, and the value is 15.
C27_Witness ==
    /\ p_sine = 0
    /\ p_value = 15

C29_ChannelsInRange ==
    (r_first >= 0) =>
        /\ r_first \in 0..255 /\ r_second \in 0..255
        /\ r_colour = (r_first * r_second) \div 255
        /\ r_colour \in 0..255
        /\ r_white = (r_first * r_second) \div (2 * 255)
        /\ r_white \in 0..127
        /\ (r_first = r_second) =>
              /\ r_colour = (r_first * r_first) \div 255
              /\ r_white = (r_first * r_first) \div 510

\* C29's case: the largest draw, 255, gives the full colour value 255 and the
\* white value 127.
C29_Witness ==
    /\ r_first = 255
    /\ r_second = 255
    /\ r_colour = 255
    /\ r_white = 127

\* The steps of each routine, and those of loop() itself.
RoutinePcs(r) ==
    CASE r = "constant_colour" -> {"cc_fill", "cc_show", "cc_poll", "cc_delay"}
      [] r = "rainbow" -> {"rb_fill", "rb_show", "rb_poll"}
      [] r = "random" -> {"rnd_fill", "rnd_show", "rnd_poll", "rnd_delay"}
      [] r = "pulsing_colours" -> {"pl_fill", "pl_show", "pl_poll", "pl_delay"}
      [] r = "chasing_dots" -> {"cd_fill", "cd_show", "cd_poll", "cd_delay"}
      [] r = "none" -> {"loop", "switch", "er_show", "er_delay", "settle"}

\* C30: while a routine runs, current_mode is an ordinary mode, never ERROR,
\* and one whose arm of the switch calls that routine: BRIGHT_WHITE or
\* DIM_WHITE for constant_colour, the three rainbow modes for rainbow,
\* CHASING_DOTS for chasing_dots, PULSING_COLOURS for pulsing_colours and
\* RANDOM for random; and the sketch is inside that one routine only.
C30_RoutineMatchesMode ==
    /\ pc \in RoutinePcs(routine)
    /\ (routine # "none") =>
          /\ current_mode \in OrdinaryModes
          /\ current_mode # ERROR
          /\ args.routine = routine
    /\ (routine = "constant_colour")
          => (current_mode \in {BRIGHT_WHITE, DIM_WHITE})
    /\ (routine = "rainbow")
          => (current_mode \in {PASTEL_RAINBOW, ROLLING_RAINBOW,
                                ROLLING_RAINBOW_RING})
    /\ (routine = "chasing_dots") => (current_mode = CHASING_DOTS)
    /\ (routine = "pulsing_colours") => (current_mode = PULSING_COLOURS)
    /\ (routine = "random") => (current_mode = RANDOM)

\* C30's case: pulsing_colours at a check, well into its first hue, under
\* PULSING_COLOURS.
C30_Witness ==
    /\ routine = "pulsing_colours"
    /\ pc = "pl_poll"
    /\ current_mode = PULSING_COLOURS
    /\ polls = 100

====
